---- MODULE Spec2Model ----
(***************************************************************************)
(* Model of the NetAuto CLI (network-automation-project): the menu loop of *)
(* netauto.py, the five operations and the field validators of             *)
(* netauto_lib/operations.py, the device session they drive and the backup *)
(* files they write.                                                       *)
(*                                                                         *)
(* Text is modelled as a sequence of characters, each character a          *)
(* one-element token ("1", ".", "/", " ", ...).  The token "sup2" stands   *)
(* for U+00B2 SUPERSCRIPT TWO, a character for which str.isdigit() is True *)
(* and int() raises ValueError.                                            *)
(***************************************************************************)
EXTENDS Integers, Sequences, FiniteSets, TLC

VARIABLES
    pc,           \* position of main()/_interactive_menu()/the running operation
    hostname,     \* device["name"] of the selected device
    acquired,     \* connect_to_device returned a connection (not None)
    connects,     \* number of ConnectHandler attempts
    disconnects,  \* number of connection.disconnect() calls
    closeResult,  \* how the disconnect() call ended
    loggedExit,   \* logger.info("Program exited normally.") was executed
    choice,       \* the last menu selection, stripped
    reads,        \* number of menu selections read
    op,           \* the operation being executed ("none" between operations)
    fields,       \* validated fields collected by the running operation
    inflight,     \* the device-session call in flight, or NoCall
    sent,         \* the last device-session call made
    sessionCalls, \* device-session calls made by the running operation
    lastResult,   \* how the last device-session call ended
    out,          \* the last message printed to the operator
    exc,          \* the exception propagating out of the menu loop ("none")
    dirExists,    \* the backups directory exists
    files,        \* backup files: file name -> content
    clock,        \* the UTC clock, in seconds
    written,      \* file name written by the last backup (<<>> if none)
    devices,      \* number of devices load_devices() returned
    default_ping_count, \* settings["default_ping_count"]
    ticks,        \* seconds elapsed since the program started
    vname,        \* validator harness: the validator being exercised
    vline,        \* validator harness: the last line read by input()
    vstate,       \* validator harness: "idle", "prompting", "returned", "raised"
    vresult,      \* validator harness: the value returned / exception raised
    nprompts,     \* validator harness: number of input() calls made
    rejected,     \* validator harness: number of lines rejected (re-prompts)
    vdefault,     \* validator harness: default_count handed to _prompt_ping_count
    handlers,     \* logging.getLogger().handlers of the process, in order
    logCalls,     \* the (logs_dir, log_name) of every setup_logging call made
    logDirs       \* directories created by setup_logging, as absolute paths

progVars == <<pc, hostname, acquired, connects, disconnects, closeResult,
              loggedExit, choice, reads, op, fields, inflight, sent,
              sessionCalls, lastResult, out, exc, dirExists, files, clock,
              written, devices, default_ping_count, ticks>>
harnessVars == <<vname, vline, vstate, vresult, nprompts, rejected, vdefault>>
loggingVars == <<handlers, logCalls, logDirs>>
vars == <<progVars, harnessVars, loggingVars>>

(***************************************************************************)
(* Bounds of the model.                                                    *)
(***************************************************************************)
MaxSelections == 2   \* menu selections read in one run
MaxClock == 1        \* seconds the clock may advance during one run
MaxDevices == 2      \* devices in the inventory
MaxPrompts == 3      \* input() calls of one validator invocation
MaxLoggingCalls == 3 \* setup_logging calls made in one process

(***************************************************************************)
(* Python text primitives.                                                 *)
(***************************************************************************)
DigitChars == <<"0", "1", "2", "3", "4", "5", "6", "7", "8", "9">>

IsAsciiDigit(c) == \E i \in 1..10 : DigitChars[i] = c

DigitValue(c) == (CHOOSE i \in 1..10 : DigitChars[i] = c) - 1

\* str.isdigit() on one character: true of the decimal digits and of the
\* other characters with the Unicode Digit property (superscripts, ...).
IsDigitChar(c) == IsAsciiDigit(c) \/ c = "sup2"

\* str.isascii() on one character.
IsAsciiChar(c) == c # "sup2"

\* str.isdigit(): non-empty and every character a digit character.
StrIsDigit(s) == Len(s) > 0 /\ \A i \in 1..Len(s) : IsDigitChar(s[i])

StrIsAscii(s) == \A i \in 1..Len(s) : IsAsciiChar(s[i])

\* int(s) accepts s (already stripped, sign-less) iff every character is a
\* decimal digit; otherwise it raises ValueError.
IntParses(s) == Len(s) > 0 /\ \A i \in 1..Len(s) : IsAsciiDigit(s[i])

RECURSIVE IntValue(_)
IntValue(s) ==
    IF Len(s) = 0 THEN 0
    ELSE 10 * IntValue(SubSeq(s, 1, Len(s) - 1)) + DigitValue(s[Len(s)])

\* str(n) for a natural number n.
RECURSIVE ToStr(_)
ToStr(n) ==
    IF n < 10 THEN <<DigitChars[n + 1]>>
    ELSE ToStr(n \div 10) \o <<DigitChars[(n % 10) + 1]>>

IsSpace(c) == c = " "

\* str.strip(): drop leading and trailing whitespace.
RECURSIVE LStrip(_)
LStrip(s) ==
    IF Len(s) > 0 /\ IsSpace(s[1]) THEN LStrip(Tail(s)) ELSE s

RECURSIVE RStrip(_)
RStrip(s) ==
    IF Len(s) > 0 /\ IsSpace(s[Len(s)]) THEN RStrip(SubSeq(s, 1, Len(s) - 1))
    ELSE s

Strip(s) == RStrip(LStrip(s))

\* str.split(c): the pieces between occurrences of the character c.
RECURSIVE Split(_, _)
Split(s, c) ==
    IF \A i \in 1..Len(s) : s[i] # c THEN <<s>>
    ELSE LET i == CHOOSE k \in 1..Len(s) :
                      s[k] = c /\ \A j \in 1..(k - 1) : s[j] # c
         IN  <<SubSeq(s, 1, i - 1)>> \o Split(SubSeq(s, i + 1, Len(s)), c)

\* c.join(parts)
RECURSIVE Join(_, _)
Join(parts, c) ==
    IF Len(parts) = 0 THEN <<>>
    ELSE IF Len(parts) = 1 THEN parts[1]
    ELSE parts[1] \o <<c>> \o Join(Tail(parts), c)

\* str.upper() on one character (the result is a string; the token
\* "eszett" stands for U+00DF, whose upper case is the two letters "SS").
Upper(c) ==
    CASE c = "g" -> <<"G">>
      [] c = "i" -> <<"I">>
      [] c = "a" -> <<"A">>
      [] c = "eszett" -> <<"S", "S">>
      [] OTHER   -> <<c>>

RECURSIVE UpperStr(_)
UpperStr(s) == IF Len(s) = 0 THEN <<>> ELSE Upper(s[1]) \o UpperStr(Tail(s))

(***************************************************************************)
(* The standard-library ipaddress calls made by the validators.  A 32-bit  *)
(* address is a sequence of four octets; its bits are a sequence of 32     *)
(* values in {0, 1}, most significant first.                               *)
(***************************************************************************)
MaxPrefixLen == 32

\* An octet check that stops short of 255.
OctetOk_Below255(o) ==
    /\ Len(o) > 0
    /\ StrIsAscii(o) /\ StrIsDigit(o)
    /\ Len(o) <= 3
    /\ ~(o # <<"0">> /\ o[1] = "0")
    /\ IntValue(o) < 255

\* _BaseV4._parse_octet: TRUE iff the octet is accepted.
OctetOk(o) ==
    /\ Len(o) > 0
    /\ StrIsAscii(o) /\ StrIsDigit(o)
    /\ Len(o) <= 3
    /\ ~(o # <<"0">> /\ o[1] = "0")
    /\ IntValue(o) <= 255

\* _BaseV4._ip_int_from_string: TRUE iff no AddressValueError is raised.
IpStringOk(s) ==
    /\ Len(s) > 0
    /\ LET octets == Split(s, ".")
       IN  Len(octets) = 4 /\ \A i \in 1..4 : OctetOk(octets[i])

IpOctets(s) == LET octets == Split(s, ".") IN [i \in 1..4 |-> IntValue(octets[i])]

\* IPv4Address(s): rejects any '/', then parses the four octets.
IPv4AddressOk(s) == (\A i \in 1..Len(s) : s[i] # "/") /\ IpStringOk(s)

\* str(IPv4Address(...)): the octets in decimal, joined by dots.
OctetsToStr(o) == Join([i \in 1..4 |-> ToStr(o[i])], ".")

OctetsToBits(o) ==
    [i \in 1..32 |-> (o[((i - 1) \div 8) + 1] \div (2 ^ (7 - ((i - 1) % 8)))) % 2]

RECURSIVE BitsValue(_)
BitsValue(b) ==
    IF Len(b) = 0 THEN 0 ELSE 2 * BitsValue(SubSeq(b, 1, Len(b) - 1)) + b[Len(b)]

BitsToOctets(b) == [i \in 1..4 |-> BitsValue(SubSeq(b, 8 * (i - 1) + 1, 8 * i))]

\* _count_righthand_zero_bits(number, 32)
CountRighthandZeroBits(b) ==
    IF \A i \in 1..32 : b[i] = 0 THEN 32
    ELSE 32 - (CHOOSE i \in 1..32 : b[i] = 1 /\ \A j \in (i + 1)..32 : b[j] = 0)

\* _prefix_from_ip_int: the prefix length of a /1*0*/ pattern, -1 for the
\* ValueError raised when the pattern mixes zeroes and ones.
PrefixFromIpInt(b) ==
    LET trailing_zeroes == CountRighthandZeroBits(b)
        prefixlen == MaxPrefixLen - trailing_zeroes
    IN  IF \A i \in 1..prefixlen : b[i] = 1 THEN prefixlen ELSE -1

InvertBits(b) == [i \in 1..32 |-> 1 - b[i]]

\* _prefix_from_prefix_string: the prefix length, -1 for NetmaskValueError.
PrefixFromPrefixString(s) ==
    IF ~(StrIsAscii(s) /\ StrIsDigit(s)) THEN -1
    ELSE IF IntValue(s) <= MaxPrefixLen THEN IntValue(s) ELSE -1

\* _prefix_from_ip_string: netmask first, then the inverted bits as a
\* hostmask; -1 for NetmaskValueError.
PrefixFromIpString(s) ==
    IF ~IpStringOk(s) THEN -1
    ELSE LET b == OctetsToBits(IpOctets(s))
         IN  IF PrefixFromIpInt(b) # -1 THEN PrefixFromIpInt(b)
             ELSE PrefixFromIpInt(InvertBits(b))

\* _make_netmask: prefix-length form first, dotted-quad form second.
MakeNetmaskPrefix(arg) ==
    IF PrefixFromPrefixString(arg) # -1 THEN PrefixFromPrefixString(arg)
    ELSE PrefixFromIpString(arg)

\* _ip_int_from_prefix: ALL_ONES ^ (ALL_ONES >> prefixlen)
IpIntFromPrefix(p) == [i \in 1..32 |-> IF i <= p THEN 1 ELSE 0]

\* IPv4Network(f"0.0.0.0/{value}", strict=False): the prefix length of the
\* network, -1 when AddressValueError or NetmaskValueError is raised.
IPv4NetworkPrefix(value) ==
    LET parts == Split(<<"0", ".", "0", ".", "0", ".", "0", "/">> \o value, "/")
    IN  IF Len(parts) > 2 THEN -1
        ELSE IF ~IPv4AddressOk(parts[1]) THEN -1
        ELSE IF Len(parts) = 1 THEN MaxPrefixLen
        ELSE MakeNetmaskPrefix(parts[2])

\* str(network.netmask)
NetmaskStr(p) == OctetsToStr(BitsToOctets(IpIntFromPrefix(p)))

(***************************************************************************)
(* The field validators: what one pass of the validator's loop does with   *)
(* the line that input() returned.  kind is "return" (val is the value     *)
(* returned), "reprompt" (the loop prompts again) or "raise" (val is the   *)
(* exception that leaves the validator); msg is what it prints.            *)
(***************************************************************************)
Return(v) == [kind |-> "return", val |-> v, msg |-> "none"]
Reprompt(m) == [kind |-> "reprompt", val |-> "none", msg |-> m]
Raise(e) == [kind |-> "raise", val |-> e, msg |-> "none"]

\* The validator with the whole name upper-cased.
_prompt_interface_name_UpperAll(line) ==
    LET value == Strip(line)
    IN  IF Len(value) > 0
        THEN Return(UpperStr(value))
        ELSE Reprompt("Interface name cannot be empty.")

_prompt_interface_name(line) ==
    LET value == Strip(line)
    IN  IF Len(value) > 0
        THEN Return(IF Len(value) > 1 THEN Upper(value[1]) \o Tail(value)
                    ELSE UpperStr(value))
        ELSE Reprompt("Interface name cannot be empty.")

_prompt_ipv4(line) ==
    LET candidate == Strip(line)
    IN  IF IPv4AddressOk(candidate)
        THEN Return(OctetsToStr(IpOctets(candidate)))
        ELSE Reprompt("Invalid IPv4 address. Try again.")

_prompt_subnet_mask(line) ==
    LET value == Strip(line)
    IN  IF Len(value) = 0 THEN Reprompt("Value cannot be empty.")
        ELSE IF IPv4NetworkPrefix(value) # -1
        THEN Return(NetmaskStr(IPv4NetworkPrefix(value)))
        ELSE Reprompt("Invalid subnet or mask. Use dotted decimal or prefix length.")

\* value.isdigit() and int(value) > 0: int() is evaluated only when
\* isdigit() is true, and raises ValueError on a non-decimal digit.
_prompt_positive_int(line) ==
    LET value == Strip(line)
    IN  IF ~StrIsDigit(value) THEN Reprompt("Enter a positive integer.")
        ELSE IF ~IntParses(value) THEN Raise("ValueError")
        ELSE IF IntValue(value) > 0 THEN Return(IntValue(value))
        ELSE Reprompt("Enter a positive integer.")

_prompt_ping_count(line, default_count) ==
    LET raw == Strip(line)
    IN  IF Len(raw) = 0 THEN Return(default_count)
        ELSE IF ~StrIsDigit(raw)
        THEN [Return(default_count) EXCEPT !.msg = "Invalid count. Using default."]
        ELSE IF ~IntParses(raw) THEN Raise("ValueError")
        ELSE IF IntValue(raw) > 0 THEN Return(IntValue(raw))
        ELSE [Return(default_count) EXCEPT !.msg = "Invalid count. Using default."]

_prompt_area(line) ==
    LET area == Strip(line)
    IN  IF Len(area) > 0 THEN Return(area) ELSE Reprompt("Area cannot be empty.")

\* The validator with a contiguity check: only a mask or its inverse.
_prompt_wildcard_mask_Contiguous(line) ==
    LET value == Strip(line)
    IN  IF IPv4AddressOk(value) /\ PrefixFromIpString(value) # -1
        THEN Return(OctetsToStr(IpOctets(value)))
        ELSE Reprompt("Invalid wildcard mask. Use dotted decimal (e.g. 0.0.0.255).")

_prompt_wildcard_mask(line) ==
    LET value == Strip(line)
    IN  IF IPv4AddressOk(value)
        THEN Return(OctetsToStr(IpOctets(value)))
        ELSE Reprompt("Invalid wildcard mask. Use dotted decimal (e.g. 0.0.0.255).")

(***************************************************************************)
(* Lines an operator may type at each prompt.                              *)
(***************************************************************************)
InterfaceLines ==
    { <<"g", "i", "0", "/", "0">>,
      <<"g">>,
      <<" ", "g", "i", "0", "/", "0", " ">>,
      <<"G", "i", "0", "/", "0">>,
      <<"0", "/", "0">>,
      <<"eszett", "a">>,
      <<>>,
      <<" ">> }

IPv4Lines ==
    { <<"1", "0", ".", "0", ".", "0", ".", "1">>,
      <<" ", "1", "0", ".", "0", ".", "0", ".", "1", " ">>,
      <<"1", "9", "2", ".", "1", "6", "8", ".", "5", "0", ".", "1", "0">>,
      <<"0", ".", "0", ".", "0", ".", "2", "5", "5">>,
      <<"2", "5", "5", ".", "0", ".", "0", ".", "2", "5", "5">>,
      <<"0", "1", "0", ".", "0", ".", "0", ".", "1">>,
      <<"2", "5", "6", ".", "1", ".", "1", ".", "1">>,
      <<"1", ".", "2", ".", "3">>,
      <<"1", ".", "2", ".", "3", ".", "4", "/">>,
      <<"a">>,
      <<>> }

\* "/N" and "N" for every prefix length, and one past the largest.
PrefixLines == { <<"/">> \o ToStr(n) : n \in 0..MaxPrefixLen }

BareLengthLines == { ToStr(n) : n \in 0..(MaxPrefixLen + 1) }

SubnetMaskLines ==
    { <<"2", "5", "5", ".", "2", "5", "5", ".", "2", "5", "5", ".", "0">>,
      <<"2", "5", "5", ".", "2", "5", "5", ".", "2", "5", "5", ".", "2", "5", "2">>,
      <<"0", ".", "0", ".", "0", ".", "2", "5", "5">>,
      <<"2", "5", "5", ".", "0", ".", "2", "5", "5", ".", "0">>,
      <<" ", "2", "4", " ">>,
      <<"/", "3", "3">>,
      <<"/">>,
      <<"a">>,
      <<"sup2">>,
      <<>>,
      <<" ">> }
    \cup PrefixLines \cup BareLengthLines

IntegerLines ==
    { <<"1">>,
      <<"1", "0">>,
      <<"0", "0", "7">>,
      <<" ", "5", " ">>,
      <<"0">>,
      <<"0", "0">>,
      <<"-", "1">>,
      <<"+", "1">>,
      <<"1", ".", "5">>,
      <<"a">>,
      <<"sup2">>,
      <<"1", "sup2">>,
      <<>>,
      <<" ">> }

AreaLines ==
    { <<"0">>,
      <<" ", "0", " ">>,
      <<"0", ".", "0", ".", "0", ".", "0">>,
      <<"a">>,
      <<>>,
      <<" ">> }

\* Values of the DEFAULT_PING_COUNT environment variable ("5" when unset).
DefaultPingRaws == { <<"5">>, <<"0">>, <<"-", "1">>, <<"a">> }

\* get_global_settings()["default_ping_count"]: int(raw), or 5 when int()
\* raises ValueError; int() takes a sign and surrounding whitespace.
get_global_settings(default_ping_raw) ==
    LET t == Strip(default_ping_raw)
        signed == Len(t) > 0 /\ t[1] \in {"-", "+"}
        digits == IF signed THEN Tail(t) ELSE t
    IN  IF ~IntParses(digits) THEN 5
        ELSE IF signed /\ t[1] = "-" THEN 0 - IntValue(digits)
        ELSE IntValue(digits)

DefaultCounts == { get_global_settings(raw) : raw \in DefaultPingRaws }

(***************************************************************************)
(* Validator harness: one validator is invoked and fed lines until it      *)
(* returns or raises.                                                      *)
(***************************************************************************)
Validators == {"_prompt_interface_name", "_prompt_ipv4", "_prompt_subnet_mask",
               "_prompt_positive_int", "_prompt_ping_count", "_prompt_area",
               "_prompt_wildcard_mask"}

HarnessIdle ==
    /\ vname = "none"
    /\ vline = <<>>
    /\ vstate = "idle"
    /\ vresult = "none"
    /\ nprompts = 0
    /\ rejected = 0
    /\ vdefault = 0

HarnessInit ==
    /\ vname \in Validators
    /\ vline = <<>>
    /\ vstate = "prompting"
    /\ vresult = "none"
    /\ nprompts = 0
    /\ rejected = 0
    /\ vdefault \in DefaultCounts

\* One pass of the validator's loop on the line read.
Feed(name, line, outcome) ==
    /\ vname = name
    /\ vstate = "prompting"
    /\ nprompts < MaxPrompts
    /\ vline' = line
    /\ nprompts' = nprompts + 1
    /\ vstate' = CASE outcome.kind = "return" -> "returned"
                   [] outcome.kind = "raise" -> "raised"
                   [] OTHER -> "prompting"
    /\ vresult' = IF outcome.kind = "reprompt" THEN vresult ELSE outcome.val
    /\ rejected' = IF outcome.kind = "reprompt" THEN rejected + 1 ELSE rejected
    /\ UNCHANGED <<vname, vdefault>>
    /\ UNCHANGED <<progVars, loggingVars>>

CallInterfaceName ==
    \E line \in InterfaceLines :
        Feed("_prompt_interface_name", line, _prompt_interface_name(line))

CallIPv4 ==
    \E line \in IPv4Lines : Feed("_prompt_ipv4", line, _prompt_ipv4(line))

CallSubnetMask ==
    \E line \in SubnetMaskLines :
        Feed("_prompt_subnet_mask", line, _prompt_subnet_mask(line))

CallPositiveInt ==
    \E line \in IntegerLines :
        Feed("_prompt_positive_int", line, _prompt_positive_int(line))

CallPingCount ==
    \E line \in IntegerLines :
        Feed("_prompt_ping_count", line, _prompt_ping_count(line, vdefault))

CallArea ==
    \E line \in AreaLines : Feed("_prompt_area", line, _prompt_area(line))

CallWildcardMask ==
    \E line \in IPv4Lines :
        Feed("_prompt_wildcard_mask", line, _prompt_wildcard_mask(line))

HarnessNext ==
    \/ CallInterfaceName
    \/ CallIPv4
    \/ CallSubnetMask
    \/ CallPositiveInt
    \/ CallPingCount
    \/ CallArea
    \/ CallWildcardMask

(***************************************************************************)
(* The program: main(), _interactive_menu() and the five operations.       *)
(***************************************************************************)
\* Python's exception hierarchy, as far as the handlers of the program
\* tell classes apart: KeyboardInterrupt derives from BaseException only.
ExceptionSubclasses ==
    {"Exception", "AttributeError", "ValueError", "TypeError", "EOFError",
     "OSError", "PermissionError", "NetmikoTimeoutException",
     "NetmikoAuthenticationException", "ReadTimeout", "SSHException"}

IsSubclass(e, cls) ==
    \/ e = cls
    \/ cls = "BaseException"
    \/ cls = "Exception" /\ e \in ExceptionSubclasses
    \/ cls = "OSError" /\ e = "PermissionError"

\* Failures the session may raise from send_config_set / send_command.
SessionFailures == {"NetmikoTimeoutException", "OSError"}

\* Failures ConnectHandler may raise.
ConnectFailures ==
    {"NetmikoTimeoutException", "NetmikoAuthenticationException", "SSHException"}

\* Failures connection.disconnect() may raise.
DisconnectFailures == {"AttributeError", "OSError"}

\* Failures input() may raise while the program waits for a line.
InputFailures == {"EOFError", "KeyboardInterrupt"}

\* Text the device may answer with.
DeviceTexts == {"textA", "textB"}

NoCall == [kind |-> "none", arg |-> <<>>]
Msg(text, arg) == [text |-> text, arg |-> arg]
NoFields == [f \in {} |-> <<>>]

VALID_MENU_CHOICES == { <<"0">>, <<"1">>, <<"2">>, <<"3">>, <<"4">>, <<"5">> }

\* A check that accepts every selection.
is_valid_choice_Any(c, valid_choices) == TRUE

is_valid_choice(c, valid_choices) == c \in valid_choices

MenuLines ==
    { <<"0">>,
      <<"1">>,
      <<"2">>,
      <<"3">>,
      <<"4">>,
      <<"5">>,
      <<" ", "4", " ">>,
      <<"6">>,
      <<"0", "1">>,
      <<"a">>,
      <<>> }

DeviceLines ==
    { <<"1">>,
      <<"2">>,
      <<"3">>,
      <<"0">>,
      <<"a">>,
      <<>> }

CiInterfaceLines ==
    { <<"g", "i", "0", "/", "0">>,
      <<>> }

CiIpLines ==
    { <<"1", "0", ".", "0", ".", "0", ".", "1">>,
      <<"2", "5", "6", ".", "1", ".", "1", ".", "1">> }

CiMaskLines ==
    { <<"2", "5", "5", ".", "2", "5", "5", ".", "2", "5", "5", ".", "0">>,
      <<"3", "0">>,
      <<"/", "2", "4">>,
      <<>> }

PingDestinationLines ==
    { <<"1", "9", "2", ".", "1", "6", "8", ".", "5", "0", ".", "1", "0">>,
      <<"a">> }

PingCountLines ==
    { <<>>,
      <<"1", "0">>,
      <<"0">>,
      <<"sup2">> }

OspfProcessIdLines ==
    { <<"1">>,
      <<"0">>,
      <<"sup2">> }

OspfRouterIdLines ==
    { <<"1", ".", "1", ".", "1", ".", "1">>,
      <<"1", ".", "2", ".", "3">> }

OspfNetworkLines ==
    { <<"1", "0", ".", "0", ".", "0", ".", "0">>,
      <<>> }

OspfWildcardLines ==
    { <<"0", ".", "0", ".", "0", ".", "2", "5", "5">>,
      <<"2", "5", "5", ".", "0", ".", "0", ".", "2", "5", "5">>,
      <<"a">> }

OspfAreaLines ==
    { <<"0">>,
      <<" ">> }

S_interface == <<"i", "n", "t", "e", "r", "f", "a", "c", "e", " ">>
S_ip_address == <<"i", "p", " ", "a", "d", "d", "r", "e", "s", "s", " ">>
S_no_shutdown == <<"n", "o", " ", "s", "h", "u", "t", "d", "o", "w", "n">>
S_show_ip_interface_brief == <<"s", "h", "o", "w", " ", "i", "p", " ", "i", "n", "t", "e", "r", "f", "a", "c", "e", " ", "b", "r", "i", "e", "f">>
S_ping == <<"p", "i", "n", "g", " ">>
S_repeat == <<" ", "r", "e", "p", "e", "a", "t", " ">>
S_show_running_config == <<"s", "h", "o", "w", " ", "r", "u", "n", "n", "i", "n", "g", "-", "c", "o", "n", "f", "i", "g">>
S_router_ospf == <<"r", "o", "u", "t", "e", "r", " ", "o", "s", "p", "f", " ">>
S_router_id == <<"r", "o", "u", "t", "e", "r", "-", "i", "d", " ">>
S_network == <<"n", "e", "t", "w", "o", "r", "k", " ">>
S_area == <<" ", "a", "r", "e", "a", " ">>
S_running == <<"_", "r", "u", "n", "n", "i", "n", "g", "_">>
S_txt == <<".", "t", "x", "t">>

(***************************************************************************)
(* The UTC clock and datetime.strftime("%Y%m%d-%H%M%S").                   *)
(***************************************************************************)
Instant(y, mo, d, h, mi, sec) ==
    [year |-> y, month |-> mo, day |-> d, hour |-> h, minute |-> mi, second |-> sec]

StartInstants == { Instant(2024, 1, 2, 3, 4, 5), Instant(2023, 12, 31, 23, 59, 59) }

IsLeap(y) == (y % 4 = 0 /\ y % 100 # 0) \/ y % 400 = 0

DaysInMonth(y, mo) ==
    IF mo = 2 THEN (IF IsLeap(y) THEN 29 ELSE 28)
    ELSE IF mo \in {4, 6, 9, 11} THEN 30 ELSE 31

\* The instant one second later.
NextSecond(c) ==
    IF c.second < 59 THEN [c EXCEPT !.second = @ + 1]
    ELSE IF c.minute < 59 THEN [c EXCEPT !.second = 0, !.minute = @ + 1]
    ELSE IF c.hour < 23 THEN [c EXCEPT !.second = 0, !.minute = 0, !.hour = @ + 1]
    ELSE IF c.day < DaysInMonth(c.year, c.month)
         THEN [c EXCEPT !.second = 0, !.minute = 0, !.hour = 0, !.day = @ + 1]
    ELSE IF c.month < 12
         THEN [c EXCEPT !.second = 0, !.minute = 0, !.hour = 0, !.day = 1,
                        !.month = @ + 1]
    ELSE [c EXCEPT !.second = 0, !.minute = 0, !.hour = 0, !.day = 1,
                   !.month = 1, !.year = @ + 1]

\* A number zero-padded to a width, as %m, %d, %H, %M, %S (2) and %Y (4) do.
RECURSIVE Pad(_, _)
Pad(str, width) == IF Len(str) >= width THEN str ELSE Pad(<<"0">> \o str, width)

\* The timestamp without zero padding.
Strftime_Unpadded(c) ==
    ToStr(c.year) \o ToStr(c.month) \o ToStr(c.day) \o <<"-">>
    \o ToStr(c.hour) \o ToStr(c.minute) \o ToStr(c.second)

Strftime(c) ==
    Pad(ToStr(c.year), 4) \o Pad(ToStr(c.month), 2) \o Pad(ToStr(c.day), 2)
    \o <<"-">>
    \o Pad(ToStr(c.hour), 2) \o Pad(ToStr(c.minute), 2) \o Pad(ToStr(c.second), 2)

\* f"{hostname}_running_{timestamp}.txt", a name in the backups directory.
BackupFilename(host, timestamp) == host \o S_running \o timestamp \o S_txt

\* str(n) for an integer, as an f-string renders it.
PyStr(n) == IF n < 0 THEN <<"-">> \o ToStr(0 - n) ELSE ToStr(n)

\* load_devices() normalizes every entry to a non-empty name: R1, R2, ...
DeviceName(i) == <<"R">> \o ToStr(i)

(***************************************************************************)
(* State groups.                                                           *)
(***************************************************************************)
sessionVars == <<inflight, sent, sessionCalls, lastResult>>
fsVars == <<dirExists, files, written>>
connVars == <<acquired, connects, disconnects, closeResult, loggedExit>>
startVars == <<devices, hostname, default_ping_count>>
menuVars == <<choice, reads>>
timeVars == <<clock, ticks>>

ProgInit ==
    /\ pc = "load"
    /\ hostname = <<>>
    /\ acquired = FALSE
    /\ connects = 0
    /\ disconnects = 0
    /\ closeResult = "none"
    /\ loggedExit = FALSE
    /\ choice = <<>>
    /\ reads = 0
    /\ op = "none"
    /\ fields = NoFields
    /\ inflight = NoCall
    /\ sent = NoCall
    /\ sessionCalls = 0
    /\ lastResult = "none"
    /\ out = Msg("none", <<>>)
    /\ exc = "none"
    /\ dirExists \in BOOLEAN
    /\ files = NoFields
    /\ clock \in StartInstants
    /\ ticks = 0
    /\ written = <<>>
    /\ devices = 0
    /\ default_ping_count \in DefaultCounts

\* The harness runs with the program at rest.
ProgIdle ==
    /\ pc = "idle"
    /\ hostname = <<>>
    /\ acquired = FALSE
    /\ connects = 0
    /\ disconnects = 0
    /\ closeResult = "none"
    /\ loggedExit = FALSE
    /\ choice = <<>>
    /\ reads = 0
    /\ op = "none"
    /\ fields = NoFields
    /\ inflight = NoCall
    /\ sent = NoCall
    /\ sessionCalls = 0
    /\ lastResult = "none"
    /\ out = Msg("none", <<>>)
    /\ exc = "none"
    /\ dirExists = FALSE
    /\ files = NoFields
    /\ clock = Instant(2024, 1, 2, 3, 4, 5)
    /\ ticks = 0
    /\ written = <<>>
    /\ devices = 0
    /\ default_ping_count = 5

Terminated == pc \in {"returned", "crashed"}

\* Time passes while the program runs.
Tick ==
    /\ pc \notin {"idle", "returned", "crashed"}
    /\ ticks < MaxClock
    /\ ticks' = ticks + 1
    /\ clock' = NextSecond(clock)
    /\ UNCHANGED <<pc, op, fields, out, exc, sessionVars, fsVars, connVars,
                   startVars, menuVars, harnessVars, loggingVars>>

(***************************************************************************)
(* main(): start-up.                                                       *)
(***************************************************************************)
\* devices = load_devices(); if not devices: report and return.
LoadDevices ==
    /\ pc = "load"
    /\ \E n \in 0..MaxDevices :
        /\ devices' = n
        /\ IF n = 0
           THEN /\ out' = Msg("No devices found in devices.yaml; exiting.", <<>>)
                /\ pc' = "returned"
           ELSE /\ out' = out
                /\ pc' = "choose"
    /\ UNCHANGED <<hostname, default_ping_count, op, fields, exc, sessionVars,
                   fsVars, connVars, menuVars, timeVars, harnessVars, loggingVars>>

\* _safe_int(selection): None (-1 here) when int() raises ValueError.
_safe_int(value) == IF IntParses(value) THEN IntValue(value) ELSE -1

\* choose_device(devices): the sole device, or the one the operator picks.
ChooseDevice ==
    /\ pc = "choose"
    /\ IF devices = 1
       THEN /\ hostname' = DeviceName(1)
            /\ out' = Msg("Only one device available.", DeviceName(1))
            /\ pc' = "connect"
       ELSE \E line \in DeviceLines :
              LET index == _safe_int(Strip(line))
              IN  IF index = -1
                  THEN /\ out' = Msg("Please enter a valid number.", <<>>)
                       /\ UNCHANGED <<hostname, pc>>
                  ELSE IF 1 <= index /\ index <= devices
                  THEN /\ hostname' = DeviceName(index)
                       /\ pc' = "connect"
                       /\ out' = out
                  ELSE /\ out' = Msg("Selection out of range. Try again.", <<>>)
                       /\ UNCHANGED <<hostname, pc>>
    /\ UNCHANGED <<devices, default_ping_count, op, fields, exc, sessionVars,
                   fsVars, connVars, menuVars, timeVars, harnessVars, loggingVars>>

\* except (NetmikoTimeoutException, NetmikoAuthenticationException)
ConnectCatches(e) ==
    IsSubclass(e, "NetmikoTimeoutException")
    \/ IsSubclass(e, "NetmikoAuthenticationException")

\* main() entering the menu loop whatever connect_to_device returned.
ConnectionMissing_Ignored(connection) == FALSE

\* if connection is None: return
ConnectionMissing(connection) == connection = "None"

\* connection = connect_to_device(device); if connection is None: return.
\* connect_to_device returns the session, or None after a failure it
\* catches; any other failure of ConnectHandler leaves main().
ConnectToDevice ==
    /\ pc = "connect"
    /\ connects' = connects + 1
    /\ \E r \in {"ok"} \cup ConnectFailures :
        IF r # "ok" /\ ~ConnectCatches(r)
        THEN /\ acquired' = FALSE
             /\ out' = out
             /\ pc' = "crashed"
             /\ exc' = r
        ELSE LET connection == IF r = "ok" THEN "session" ELSE "None"
             IN  /\ acquired' = (connection = "session")
                 /\ out' = IF r = "ok" THEN Msg("Connected to", hostname)
                           ELSE Msg("Unable to connect to", hostname)
                 /\ pc' = IF ConnectionMissing(connection) THEN "returned"
                          ELSE "menu"
                 /\ exc' = exc
    /\ UNCHANGED <<disconnects, closeResult, loggedExit, op, fields,
                   sessionVars, fsVars, startVars, menuVars, timeVars,
                   harnessVars, loggingVars>>

(***************************************************************************)
(* main(): try: _interactive_menu(...) finally: disconnect.                *)
(***************************************************************************)
\* main() without try/finally: disconnect only after a normal return.
AfterLoop_NoFinally(e) == IF e = "none" THEN "finally" ELSE "crashed"

\* Where control goes when the menu loop is left, normally (e = "none") or
\* by the exception e: the finally clause of main() runs in both cases.
AfterLoop(e) == "finally"

\* except AttributeError: pass
DisconnectCatches(e) == IsSubclass(e, "AttributeError")

\* finally: try: connection.disconnect() except AttributeError: pass;
\* logger.info("Program exited normally.")
Finally ==
    /\ pc = "finally"
    /\ disconnects' = disconnects + 1
    /\ \E r \in {"ok"} \cup DisconnectFailures :
        /\ closeResult' = r
        /\ IF r = "ok" \/ DisconnectCatches(r)
           THEN /\ loggedExit' = TRUE
                /\ exc' = exc
                /\ pc' = IF exc = "none" THEN "returned" ELSE "crashed"
           ELSE /\ loggedExit' = loggedExit
                /\ exc' = r
                /\ pc' = "crashed"
    /\ UNCHANGED <<acquired, connects, op, fields, out, sessionVars, fsVars,
                   startVars, menuVars, timeVars, harnessVars, loggingVars>>

(***************************************************************************)
(* _interactive_menu(): read a selection, validate it, dispatch.           *)
(***************************************************************************)
\* The chain with the branches of "2" and "3" exchanged.
Dispatch_Swapped(c) ==
    CASE c = <<"1">> -> "configure_interface"
      [] c = <<"2">> -> "ping_test"
      [] c = <<"3">> -> "show_interfaces"
      [] c = <<"4">> -> "backup_config"
      [] c = <<"5">> -> "configure_ospf"
      [] OTHER -> "none"

\* The if/elif chain: the operation a valid choice starts.
Dispatch(c) ==
    CASE c = <<"1">> -> "configure_interface"
      [] c = <<"2">> -> "show_interfaces"
      [] c = <<"3">> -> "ping_test"
      [] c = <<"4">> -> "backup_config"
      [] c = <<"5">> -> "configure_ospf"
      [] OTHER -> "none"

\* The first step of each operation.
EntryOf(operation) ==
    CASE operation = "configure_interface" -> "ci_interface"
      [] operation = "show_interfaces" -> "show_send"
      [] operation = "ping_test" -> "ping_destination"
      [] operation = "backup_config" -> "backup_send"
      [] operation = "configure_ospf" -> "ospf_process_id"
      [] OTHER -> "menu"

MenuSelect ==
    /\ pc = "menu"
    /\ reads < MaxSelections
    /\ reads' = reads + 1
    /\ \E line \in MenuLines :
        LET c == Strip(line)
        IN  /\ choice' = c
            /\ IF ~is_valid_choice(c, VALID_MENU_CHOICES)
               THEN /\ out' = Msg("Invalid choice. Please try again.", <<>>)
                    /\ pc' = "menu"
                    /\ op' = "none"
               ELSE IF Dispatch(c) # "none"
               THEN /\ out' = out
                    /\ op' = Dispatch(c)
                    /\ pc' = EntryOf(Dispatch(c))
               ELSE IF c = <<"0">>
               THEN /\ out' = Msg("Goodbye!", <<>>)
                    /\ op' = "none"
                    /\ pc' = AfterLoop("none")
               ELSE /\ out' = out
                    /\ op' = "none"
                    /\ pc' = "menu"
    /\ fields' = NoFields
    /\ sessionCalls' = 0
    /\ sent' = NoCall
    /\ lastResult' = "none"
    /\ written' = <<>>
    /\ UNCHANGED <<exc, inflight, dirExists, files, connVars, startVars,
                   timeVars, harnessVars, loggingVars>>

PromptPcs ==
    {"menu", "ci_interface", "ci_ip", "ci_mask", "ping_destination",
     "ping_count", "ospf_process_id", "ospf_router_id", "ospf_network",
     "ospf_wildcard", "ospf_area"}

\* input() raises (end of input, Ctrl-C): no handler in the operations or
\* in the menu loop catches it.
InputFails ==
    /\ pc \in PromptPcs
    /\ \E e \in InputFailures :
        /\ exc' = e
        /\ pc' = AfterLoop(e)
    /\ op' = "none"
    /\ fields' = NoFields
    /\ UNCHANGED <<out, sessionVars, fsVars, connVars, startVars, menuVars,
                   timeVars, harnessVars, loggingVars>>

(***************************************************************************)
(* Steps shared by the operations.                                         *)
(***************************************************************************)
\* A validator call on the line the operator typed: the value is stored in
\* the operation's local variable, the prompt is repeated, or the
\* validator's exception leaves the operation and the loop.
Prompted(at, o, field, next) ==
    /\ pc = at
    /\ pc' = CASE o.kind = "return" -> next
               [] o.kind = "reprompt" -> at
               [] OTHER -> AfterLoop(o.val)
    /\ fields' = CASE o.kind = "return" -> (field :> o.val) @@ fields
                   [] o.kind = "reprompt" -> fields
                   [] OTHER -> NoFields
    /\ out' = IF o.msg # "none" THEN Msg(o.msg, <<>>) ELSE out
    /\ exc' = IF o.kind = "raise" THEN o.val ELSE exc
    /\ op' = IF o.kind = "raise" THEN "none" ELSE op
    /\ UNCHANGED <<sessionVars, fsVars, connVars, startVars, menuVars,
                   timeVars, harnessVars, loggingVars>>

\* A helper that enters the session twice for one request.
Issue_Twice(at, kind, arg, next) ==
    /\ pc = at
    /\ inflight' = [kind |-> kind, arg |-> arg]
    /\ sent' = [kind |-> kind, arg |-> arg]
    /\ sessionCalls' = sessionCalls + 2
    /\ pc' = next
    /\ UNCHANGED <<lastResult, op, fields, out, exc, fsVars, connVars,
                   startVars, menuVars, timeVars, harnessVars, loggingVars>>

\* conn.send_config_set(commands) / conn.send_command(command) is entered.
Issue(at, kind, arg, next) ==
    /\ pc = at
    /\ inflight' = [kind |-> kind, arg |-> arg]
    /\ sent' = [kind |-> kind, arg |-> arg]
    /\ sessionCalls' = sessionCalls + 1
    /\ pc' = next
    /\ UNCHANGED <<lastResult, op, fields, out, exc, fsVars, connVars,
                   startVars, menuVars, timeVars, harnessVars, loggingVars>>

\* A handler that names only the Netmiko connection failures.
SendConfigCatches_NetmikoOnly(e) ==
    IsSubclass(e, "NetmikoTimeoutException")
    \/ IsSubclass(e, "NetmikoAuthenticationException")

\* _send_config: except Exception
SendConfigCatches(e) == IsSubclass(e, "Exception")

\* _send_command: except Exception
SendCommandCatches(e) == IsSubclass(e, "Exception")

Catches(kind, e) ==
    IF kind = "send_config_set" THEN SendConfigCatches(e) ELSE SendCommandCatches(e)

\* The session call returns text or raises; _send_config/_send_command turn
\* a caught failure into the generic message and None, and the operation
\* prints the output it got.
Finish(at, action) ==
    /\ pc = at
    /\ \E r \in DeviceTexts \cup SessionFailures :
        /\ lastResult' = r
        /\ IF r \in DeviceTexts
           THEN /\ out' = Msg("output", r)
                /\ pc' = "menu"
                /\ exc' = exc
           ELSE IF Catches(inflight.kind, r)
           THEN /\ out' = Msg("An error occurred while performing", action)
                /\ pc' = "menu"
                /\ exc' = exc
           ELSE /\ out' = out
                /\ pc' = AfterLoop(r)
                /\ exc' = r
    /\ inflight' = NoCall
    /\ op' = "none"
    /\ fields' = NoFields
    /\ UNCHANGED <<sent, sessionCalls, fsVars, connVars, startVars,
                   menuVars, timeVars, harnessVars, loggingVars>>

(***************************************************************************)
(* configure_interface(conn)                                               *)
(***************************************************************************)
CiPromptInterface ==
    \E line \in CiInterfaceLines :
        Prompted("ci_interface", _prompt_interface_name(line), "interface", "ci_ip")

CiPromptIp ==
    \E line \in CiIpLines : Prompted("ci_ip", _prompt_ipv4(line), "ip_addr", "ci_mask")

CiPromptMask ==
    \E line \in CiMaskLines :
        Prompted("ci_mask", _prompt_subnet_mask(line), "mask", "ci_send")

\* The command list with "no shutdown" issued first.
InterfaceCommands_ShutdownFirst(f) ==
    << S_no_shutdown,
       S_interface \o f["interface"],
       S_ip_address \o f["ip_addr"] \o <<" ">> \o f["mask"] >>

InterfaceCommands(f) ==
    << S_interface \o f["interface"],
       S_ip_address \o f["ip_addr"] \o <<" ">> \o f["mask"],
       S_no_shutdown >>

CiSend == Issue("ci_send", "send_config_set", InterfaceCommands(fields), "ci_wait")

CiFinish == Finish("ci_wait", "interface configuration")

(***************************************************************************)
(* show_interfaces(conn)                                                   *)
(***************************************************************************)
ShowSend == Issue("show_send", "send_command", S_show_ip_interface_brief, "show_wait")

ShowFinish == Finish("show_wait", "interface summary")

(***************************************************************************)
(* ping_test(conn, default_count)                                          *)
(***************************************************************************)
PingPromptDestination ==
    \E line \in PingDestinationLines :
        Prompted("ping_destination", _prompt_ipv4(line), "destination", "ping_count")

PingPromptCount ==
    \E line \in PingCountLines :
        Prompted("ping_count", _prompt_ping_count(line, default_ping_count),
                 "repeat", "ping_send")

PingCommand(f) == S_ping \o f["destination"] \o S_repeat \o PyStr(f["repeat"])

PingSend == Issue("ping_send", "send_command", PingCommand(fields), "ping_wait")

PingFinish == Finish("ping_wait", "ping test")

(***************************************************************************)
(* configure_ospf(conn)                                                    *)
(***************************************************************************)
OspfPromptProcessId ==
    \E line \in OspfProcessIdLines :
        Prompted("ospf_process_id", _prompt_positive_int(line), "process_id",
                 "ospf_router_id")

OspfPromptRouterId ==
    \E line \in OspfRouterIdLines :
        Prompted("ospf_router_id", _prompt_ipv4(line), "router_id", "ospf_network")

OspfPromptNetwork ==
    \E line \in OspfNetworkLines :
        Prompted("ospf_network", _prompt_ipv4(line), "network", "ospf_wildcard")

OspfPromptWildcard ==
    \E line \in OspfWildcardLines :
        Prompted("ospf_wildcard", _prompt_wildcard_mask(line), "wildcard", "ospf_area")

OspfPromptArea ==
    \E line \in OspfAreaLines :
        Prompted("ospf_area", _prompt_area(line), "area", "ospf_send")

OspfCommands(f) ==
    << S_router_ospf \o PyStr(f["process_id"]),
       S_router_id \o f["router_id"],
       S_network \o f["network"] \o <<" ">> \o f["wildcard"] \o S_area \o f["area"] >>

OspfSend == Issue("ospf_send", "send_config_set", OspfCommands(fields), "ospf_wait")

OspfFinish == Finish("ospf_wait", "OSPF configuration")

(***************************************************************************)
(* backup_config(conn, hostname, backups_dir)                              *)
(***************************************************************************)
BackupSend == Issue("backup_send", "send_command", S_show_running_config, "backup_wait")

\* backup_config without its early return.
CaptureFailed_Ignored(config_text) == FALSE

\* if config_text is None: return
CaptureFailed(config_text) == config_text = "None"

\* config_text = _send_command(conn, "show running-config", ...): the text
\* captured, or None after a caught failure.
BackupCapture ==
    /\ pc = "backup_wait"
    /\ \E r \in DeviceTexts \cup SessionFailures :
        /\ lastResult' = r
        /\ IF r \notin DeviceTexts /\ ~SendCommandCatches(r)
           THEN /\ out' = out
                /\ pc' = AfterLoop(r)
                /\ exc' = r
                /\ op' = "none"
                /\ fields' = NoFields
           ELSE LET config_text == IF r \in DeviceTexts THEN r ELSE "None"
                IN  /\ out' = IF r \in DeviceTexts THEN out
                              ELSE Msg("An error occurred while performing",
                                       "running-config capture")
                    /\ exc' = exc
                    /\ IF CaptureFailed(config_text)
                       THEN /\ pc' = "menu"
                            /\ op' = "none"
                            /\ fields' = NoFields
                       ELSE /\ pc' = "backup_write"
                            /\ op' = op
                            /\ fields' = ("config_text" :> config_text) @@ fields
    /\ inflight' = NoCall
    /\ UNCHANGED <<sent, sessionCalls, fsVars, connVars, startVars, menuVars,
                   timeVars, harnessVars, loggingVars>>

\* What the filesystem may do to mkdir(parents=True, exist_ok=True) and to
\* write_text: succeed, refuse the directory, refuse to open the file, or
\* fail after the file was opened (created or truncated).
FsOutcomes == {"ok", "mkdir_error", "open_error", "write_error"}

\* backup_path.mkdir(...); timestamp = now(utc).strftime(...);
\* filename.write_text(config_text); print(...)
BackupWrite ==
    /\ pc = "backup_write"
    /\ LET config_text == fields["config_text"]
           filename == BackupFilename(hostname, Strftime(clock))
       IN  \E fs \in FsOutcomes :
             /\ fs = "mkdir_error" => ~dirExists
             /\ CASE fs = "mkdir_error" ->
                       /\ exc' = "PermissionError"
                       /\ pc' = AfterLoop("PermissionError")
                       /\ UNCHANGED <<dirExists, files, written, out>>
                  [] fs # "mkdir_error" /\ config_text = "None" ->
                       \* write_text refuses data that is not a str
                       /\ dirExists' = TRUE
                       /\ exc' = "TypeError"
                       /\ pc' = AfterLoop("TypeError")
                       /\ UNCHANGED <<files, written, out>>
                  [] fs = "open_error" /\ config_text # "None" ->
                       /\ dirExists' = TRUE
                       /\ exc' = "OSError"
                       /\ pc' = AfterLoop("OSError")
                       /\ UNCHANGED <<files, written, out>>
                  [] fs = "write_error" /\ config_text # "None" ->
                       /\ dirExists' = TRUE
                       /\ files' = (filename :> "") @@ files
                       /\ exc' = "OSError"
                       /\ pc' = AfterLoop("OSError")
                       /\ UNCHANGED <<written, out>>
                  [] fs = "ok" /\ config_text # "None" ->
                       /\ dirExists' = TRUE
                       /\ files' = (filename :> config_text) @@ files
                       /\ written' = filename
                       /\ out' = Msg("Saved running-config to", filename)
                       /\ exc' = exc
                       /\ pc' = "menu"
    /\ op' = "none"
    /\ fields' = NoFields
    /\ UNCHANGED <<sessionVars, connVars, startVars, menuVars, timeVars,
                   harnessVars, loggingVars>>

(***************************************************************************)
(* logging_setup.py: setup_logging and the root logger's handlers.         *)
(* A path is a record: abs (it starts at the root) and parts (its          *)
(* components); pathlib keeps ".." components, os.path.abspath resolves    *)
(* them.                                                                   *)
(***************************************************************************)
RelPath(parts) == [abs |-> FALSE, parts |-> parts]
AbsPath(parts) == [abs |-> TRUE, parts |-> parts]

\* os.getcwd() of the process.
Cwd == AbsPath(<<"home", "netauto">>)

\* The logs_dir and log_name arguments: the defaults, an absolute
\* directory, and an absolute directory written with a ".." component.
DefaultLogsDir == RelPath(<<"logs">>)
DefaultLogName == "netauto.log"
LogsDirs ==
    { DefaultLogsDir,
      AbsPath(<<"var", "log", "netauto">>),
      AbsPath(<<"var", "tmp", "..", "log">>) }
LogNames == { DefaultLogName, "audit.log" }

\* log_path / log_name
PathJoin(dir, name) == [dir EXCEPT !.parts = Append(@, name)]

\* os.path.normpath: every ".." removes the component before it.
RECURSIVE Normpath(_)
Normpath(parts) ==
    IF Len(parts) = 0 THEN <<>>
    ELSE LET head == Normpath(SubSeq(parts, 1, Len(parts) - 1))
             last == parts[Len(parts)]
         IN  IF last = ".."
             THEN (IF Len(head) = 0 THEN <<>> ELSE SubSeq(head, 1, Len(head) - 1))
             ELSE Append(head, last)

\* os.path.abspath(path): joined to the working directory, normalized.
Abspath(path) ==
    AbsPath(Normpath(IF path.abs THEN path.parts ELSE Cwd.parts \o path.parts))

\* The handlers setup_logging creates; FileHandler.__init__ stores
\* os.path.abspath(filename) as baseFilename.
FileHandlerFor(log_file) ==
    [type |-> "RotatingFileHandler", baseFilename |-> Abspath(log_file)]
ConsoleHandler == [type |-> "StreamHandler", baseFilename |-> "none"]

\* isinstance(handler, logging.FileHandler)
IsFileHandler(handler) == handler.type \in {"FileHandler", "RotatingFileHandler"}

\* _already_configured(logger, log_file): a file handler whose baseFilename
\* equals str(log_file).
_already_configured(hs, log_file) ==
    \E i \in 1..Len(hs) : IsFileHandler(hs[i]) /\ hs[i].baseFilename = log_file

\* The root logger's handlers after setup_logging(logs_dir, log_name).
HandlersAfterSetup(hs, logs_dir, log_name) ==
    LET log_file == PathJoin(logs_dir, log_name)
    IN  IF _already_configured(hs, log_file) THEN hs
        ELSE hs \o <<FileHandlerFor(log_file), ConsoleHandler>>

\* No setup_logging call was made yet.
LoggingInit ==
    /\ handlers = <<>>
    /\ logCalls = <<>>
    /\ logDirs = {}

\* main() has called setup_logging(str(settings["logs_dir"])) once, with
\* the default directory.
LoggingStarted ==
    /\ handlers = HandlersAfterSetup(<<>>, DefaultLogsDir, DefaultLogName)
    /\ logCalls = << <<DefaultLogsDir, DefaultLogName>> >>
    /\ logDirs = {Abspath(DefaultLogsDir)}

\* setup_logging(logs_dir, log_name)
SetupLogging ==
    /\ Len(logCalls) < MaxLoggingCalls
    /\ \E logs_dir \in LogsDirs, log_name \in LogNames :
        /\ logDirs' = logDirs \cup {Abspath(logs_dir)}
        /\ handlers' = HandlersAfterSetup(handlers, logs_dir, log_name)
        /\ logCalls' = Append(logCalls, <<logs_dir, log_name>>)
    /\ UNCHANGED <<progVars, harnessVars>>

(***************************************************************************)
(* Specifications.                                                         *)
(***************************************************************************)
Init == ProgInit /\ HarnessIdle /\ LoggingStarted

Next ==
    \/ Tick
    \/ LoadDevices
    \/ ChooseDevice
    \/ ConnectToDevice
    \/ MenuSelect
    \/ InputFails
    \/ CiPromptInterface
    \/ CiPromptIp
    \/ CiPromptMask
    \/ CiSend
    \/ CiFinish
    \/ ShowSend
    \/ ShowFinish
    \/ PingPromptDestination
    \/ PingPromptCount
    \/ PingSend
    \/ PingFinish
    \/ OspfPromptProcessId
    \/ OspfPromptRouterId
    \/ OspfPromptNetwork
    \/ OspfPromptWildcard
    \/ OspfPromptArea
    \/ OspfSend
    \/ OspfFinish
    \/ BackupSend
    \/ BackupCapture
    \/ BackupWrite
    \/ Finally

Spec == Init /\ [][Next]_vars

\* The validators alone, each fed lines until it returns or raises.
ValidatorInit == ProgIdle /\ HarnessInit /\ LoggingInit

ValidatorSpec == ValidatorInit /\ [][HarnessNext]_vars

\* setup_logging alone, called repeatedly in one process.
LoggingSpecInit == ProgIdle /\ HarnessIdle /\ LoggingInit

LoggingSpec == LoggingSpecInit /\ [][SetupLogging]_vars

(***************************************************************************)
(* Properties.                                                             *)
(***************************************************************************)
LoopPcs ==
    {"menu", "ci_interface", "ci_ip", "ci_mask", "ci_send", "ci_wait",
     "show_send", "show_wait", "ping_destination", "ping_count", "ping_send",
     "ping_wait", "backup_send", "backup_wait", "backup_write",
     "ospf_process_id", "ospf_router_id", "ospf_network", "ospf_wildcard",
     "ospf_area", "ospf_send", "ospf_wait"}

\* The failure message each operation is to report.
FailureMessageOf(operation) ==
    CASE operation = "configure_interface" -> "interface configuration"
      [] operation = "show_interfaces" -> "interface summary"
      [] operation = "ping_test" -> "ping test"
      [] operation = "backup_config" -> "running-config capture"
      [] operation = "configure_ospf" -> "OSPF configuration"
      [] OTHER -> "none"

\* A step in which the session call in flight ends with a failure.
SessionCallFails ==
    /\ inflight.kind # "none"
    /\ inflight'.kind = "none"
    /\ lastResult' \in SessionFailures

\* C1: whatever failure the device session raises during the push or exec
\* call of any of the five operations, the operation prints its generic
\* failure message, nothing is raised to the menu loop, and the loop is
\* back at awaiting the next selection.
C1_SessionFailureContained ==
    [][ SessionCallFails =>
          /\ out' = Msg("An error occurred while performing", FailureMessageOf(op))
          /\ exc' = "none"
          /\ pc' = "menu"
          /\ op' = "none" ]_vars

C1_Witness ==
    /\ pc = "menu"
    /\ sent.kind = "send_config_set"
    /\ lastResult = "OSError"
    /\ out = Msg("An error occurred while performing", "OSPF configuration")

\* C2: in backup_config a failed running-config capture leaves the backup
\* files and the backups directory untouched and never reaches the write;
\* files and directory change only in a backup whose capture succeeded.
C2_NoFileWithoutCapture ==
    [][ /\ (pc = "backup_wait" /\ lastResult' \in SessionFailures) =>
              /\ pc' # "backup_write"
              /\ files' = files
              /\ dirExists' = dirExists
        /\ (files' # files \/ dirExists' # dirExists) =>
              /\ op = "backup_config"
              /\ lastResult \in DeviceTexts ]_vars

C2_Witness ==
    /\ pc = "menu"
    /\ sent.kind = "send_command"
    /\ sent.arg = S_show_running_config
    /\ lastResult \in SessionFailures
    /\ ~dirExists
    /\ files = NoFields

\* C3: once the session is acquired, disconnect is called exactly once on
\* every way out of the menu loop (option 0, or an exception escaping the
\* loop), and inside the loop the session is neither opened nor closed.
C3_ClosedExactlyOnce ==
    /\ (acquired /\ Terminated) => disconnects = 1
    /\ pc \in LoopPcs => (acquired /\ connects = 1 /\ disconnects = 0)

C3_Witness ==
    /\ pc = "crashed"
    /\ acquired
    /\ exc = "PermissionError"
    /\ disconnects = 1

\* C4: a failure of disconnect(), of whatever kind, is swallowed: it does
\* not leave main(), and the final "Program exited normally." step is
\* still executed.
C4_CloseFailureSwallowed ==
    (Terminated /\ closeResult \in DisconnectFailures) =>
        (loggedExit /\ exc # closeResult)

\* C5: a successful backup writes a file that did not exist before and
\* leaves the content of every existing backup file as it was, also when
\* two backups of the same host fall into the same second.
C5_BackupNeverOverwrites ==
    [][ (pc = "backup_write" /\ pc' = "menu") =>
          /\ written' \notin DOMAIN files
          /\ \A f \in DOMAIN files : files'[f] = files[f] ]_vars

\* The option tokens of the menu.
OptionTokens == { ToStr(k) : k \in 0..5 }

\* C6: a selection that, trimmed, is none of the tokens 0..5 is reported
\* as invalid, starts no operation, makes no session call, writes no file,
\* and leaves the loop awaiting a selection.
C6_InvalidChoiceRejected ==
    [][ (pc = "menu" /\ reads' = reads + 1 /\ choice' \notin OptionTokens) =>
          /\ out' = Msg("Invalid choice. Please try again.", <<>>)
          /\ op' = "none"
          /\ pc' = "menu"
          /\ inflight' = NoCall
          /\ sent' = NoCall
          /\ sessionCalls' = 0
          /\ exc' = exc
          /\ UNCHANGED <<dirExists, files>>
          /\ UNCHANGED connVars ]_vars

C6_Witness ==
    /\ pc = "menu"
    /\ reads = 1
    /\ choice = <<"6">>
    /\ out = Msg("Invalid choice. Please try again.", <<>>)

\* The operation the menu assigns to each option.
OperationOfOption(k) ==
    CASE k = 1 -> "configure_interface"
      [] k = 2 -> "show_interfaces"
      [] k = 3 -> "ping_test"
      [] k = 4 -> "backup_config"
      [] k = 5 -> "configure_ospf"

\* The steps of each operation.
StepsOf(operation) ==
    CASE operation = "configure_interface" ->
              {"ci_interface", "ci_ip", "ci_mask", "ci_send", "ci_wait"}
      [] operation = "show_interfaces" -> {"show_send", "show_wait"}
      [] operation = "ping_test" ->
              {"ping_destination", "ping_count", "ping_send", "ping_wait"}
      [] operation = "backup_config" ->
              {"backup_send", "backup_wait", "backup_write"}
      [] operation = "configure_ospf" ->
              {"ospf_process_id", "ospf_router_id", "ospf_network",
               "ospf_wildcard", "ospf_area", "ospf_send", "ospf_wait"}
      [] OTHER -> {"menu"}

LoopLeft == pc \in {"finally", "returned", "crashed"}

\* C7: option k in 1..5 runs exactly the operation assigned to k, and an
\* operation that returns leaves the loop awaiting a selection; option 0
\* runs no operation and ends the loop, after which no selection is read
\* and no session call is made.
C7_OptionsMapToOperations ==
    /\ [](pc \in LoopPcs => pc \in StepsOf(op))
    /\ [](op # "none" =>
            \E k \in 1..5 : choice = ToStr(k) /\ op = OperationOfOption(k))
    /\ [][ (pc = "menu" /\ reads' = reads + 1) =>
             /\ \A k \in 1..5 : choice' = ToStr(k) =>
                    (op' = OperationOfOption(k) /\ pc' \in StepsOf(op'))
             /\ choice' = <<"0">> =>
                    (op' = "none" /\ pc' = "finally" /\ exc' = "none"
                     /\ out' = Msg("Goodbye!", <<>>)) ]_vars
    /\ [][ (op # "none" /\ op' = "none" /\ exc' = "none") => pc' = "menu" ]_vars
    /\ [][ LoopLeft =>
             /\ pc' \notin LoopPcs
             /\ reads' = reads
             /\ UNCHANGED <<op, inflight, sent, sessionCalls>> ]_vars

C7_Witness ==
    /\ pc = "ospf_wait"
    /\ op = "configure_ospf"
    /\ choice = <<"5">>
    /\ reads = 2
    /\ inflight.kind = "send_config_set"

\* The dotted-decimal network mask of a prefix length.
ExactMaskOctet(n, i) ==
    LET ones == IF n - 8 * (i - 1) > 8 THEN 8
                ELSE IF n - 8 * (i - 1) < 0 THEN 0 ELSE n - 8 * (i - 1)
    IN  256 - 2 ^ (8 - ones)

ExactMask(n) ==
    ToStr(ExactMaskOctet(n, 1)) \o <<".">> \o ToStr(ExactMaskOctet(n, 2)) \o <<".">>
    \o ToStr(ExactMaskOctet(n, 3)) \o <<".">> \o ToStr(ExactMaskOctet(n, 4))

\* C8: for every prefix length N in 0..32 the subnet-mask validator accepts
\* the input "/N" and returns the exact dotted-decimal mask of N.
C8_PrefixFormAccepted ==
    (vname = "_prompt_subnet_mask" /\ vline \in PrefixLines) =>
        (vstate = "returned" /\ vresult = ExactMask(IntValue(Tail(vline))))

\* A line that, trimmed, is a positive integer in decimal digits.
IsPositiveInteger(line) == IntParses(Strip(line)) /\ IntValue(Strip(line)) > 0

\* C9: the positive-integer validator neither returns nor raises on a line
\* that is not a positive integer, it prompts again; it returns the integer
\* of the first valid line, after one re-prompt per invalid line before it.
C9_InvalidIntegerReprompts ==
    (vname = "_prompt_positive_int" /\ nprompts > 0) =>
        IF IsPositiveInteger(vline)
        THEN /\ vstate = "returned"
             /\ vresult = IntValue(Strip(vline))
             /\ nprompts = rejected + 1
        ELSE /\ vstate = "prompting"
             /\ nprompts = rejected

\* C10: the ping-count validator reads exactly one line and returns: the
\* integer typed when the line is a positive integer, the caller's default
\* when the line is empty or anything else.
C10_PingCountReadsOneLine ==
    (vname = "_prompt_ping_count" /\ nprompts > 0) =>
        /\ vstate = "returned"
        /\ nprompts = 1
        /\ rejected = 0
        /\ vresult = IF IsPositiveInteger(vline) THEN IntValue(Strip(vline))
                     ELSE vdefault

\* The prompts of the operations that take input, in the order asked:
\* prompt position, local variable filled, position that follows.
FieldPrompts ==
    { <<"ci_interface", "interface", "ci_ip">>,
      <<"ci_ip", "ip_addr", "ci_mask">>,
      <<"ci_mask", "mask", "ci_send">>,
      <<"ping_destination", "destination", "ping_count">>,
      <<"ping_count", "repeat", "ping_send">>,
      <<"ospf_process_id", "process_id", "ospf_router_id">>,
      <<"ospf_router_id", "router_id", "ospf_network">>,
      <<"ospf_network", "network", "ospf_wildcard">>,
      <<"ospf_wildcard", "wildcard", "ospf_area">>,
      <<"ospf_area", "area", "ospf_send">> }

\* The fields each operation collects before its session call.
FieldsOf(operation) ==
    CASE operation = "configure_interface" -> {"interface", "ip_addr", "mask"}
      [] operation = "ping_test" -> {"destination", "repeat"}
      [] operation = "configure_ospf" ->
              {"process_id", "router_id", "network", "wildcard", "area"}
      [] OTHER -> {}

\* A step at a field prompt is a re-prompt of the same field or the
\* acceptance of that field, with the fields accepted before kept.
FieldStepOk(p) ==
    \/ /\ pc' = p[1]
       /\ fields' = fields
    \/ /\ pc' = p[3]
       /\ DOMAIN fields' = DOMAIN fields \cup {p[2]}
       /\ p[2] \notin DOMAIN fields
       /\ \A f \in DOMAIN fields : fields'[f] = fields[f]

\* C11: in configure interface, ping test and configure OSPF the session
\* call is made only once every field of the operation has been accepted;
\* a line a validator does not accept raises nothing and re-prompts the
\* same field, and accepted fields are not asked again.
C11_InputErrorsStayLocal ==
    /\ [](inflight.kind # "none" /\ FieldsOf(op) # {} =>
            DOMAIN fields = FieldsOf(op))
    /\ [][ \A p \in FieldPrompts :
             pc = p[1] =>
               \/ exc' \in InputFailures
               \/ exc' = "none" /\ op' = op /\ inflight' = NoCall
                  /\ sessionCalls' = 0 /\ FieldStepOk(p) ]_vars

\* The interface example of the specification: name Gi0/0, address
\* 10.0.0.1, mask 255.255.255.0.
ExampleInterfaceFields ==
    [interface |-> <<"G", "i", "0", "/", "0">>,
     ip_addr |-> <<"1", "0", ".", "0", ".", "0", ".", "1">>,
     mask |-> <<"2", "5", "5", ".", "2", "5", "5", ".", "2", "5", "5", ".", "0">>]

ExampleInterfacePush ==
    << <<"i", "n", "t", "e", "r", "f", "a", "c", "e", " ",
         "G", "i", "0", "/", "0">>,
       <<"i", "p", " ", "a", "d", "d", "r", "e", "s", "s", " ",
         "1", "0", ".", "0", ".", "0", ".", "1", " ",
         "2", "5", "5", ".", "2", "5", "5", ".", "2", "5", "5", ".", "0">>,
       <<"n", "o", " ", "s", "h", "u", "t", "d", "o", "w", "n">> >>

\* The text a positive process id is rendered as: its decimal digits.
RECURSIVE DecimalDigits(_)
DecimalDigits(n) ==
    IF n < 10 THEN <<DigitChars[n + 1]>>
    ELSE DecimalDigits(n \div 10) \o <<DigitChars[(n % 10) + 1]>>

\* The fields of a push are values their validators return.
PushFieldsValidated ==
    /\ op = "configure_interface" =>
         /\ _prompt_interface_name(fields["interface"]).kind = "return"
         /\ _prompt_ipv4(fields["ip_addr"]) = Return(fields["ip_addr"])
         /\ _prompt_subnet_mask(fields["mask"]) = Return(fields["mask"])
    /\ op = "configure_ospf" =>
         /\ fields["process_id"] \in Nat \ {0}
         /\ _prompt_ipv4(fields["router_id"]) = Return(fields["router_id"])
         /\ _prompt_ipv4(fields["network"]) = Return(fields["network"])
         /\ _prompt_wildcard_mask(fields["wildcard"]) = Return(fields["wildcard"])
         /\ _prompt_area(fields["area"]) = Return(fields["area"])

\* C12: a configuration push is the one session call of its operation and
\* carries exactly three commands in order, built from the validated
\* fields: "interface <name>", "ip address <ip> <mask>", "no shutdown" for
\* configure interface, and "router ospf <process_id>", "router-id
\* <router_id>", "network <network> <wildcard> area <area>" for configure
\* OSPF; name Gi0/0, address 10.0.0.1, mask 255.255.255.0 give the
\* sequence of the specification's example.
C12_PushCarriesThreeCommands ==
    inflight.kind = "send_config_set" =>
      /\ op \in {"configure_interface", "configure_ospf"}
      /\ sessionCalls = 1
      /\ sent = inflight
      /\ Len(inflight.arg) = 3
      /\ PushFieldsValidated
      /\ op = "configure_interface" =>
           /\ inflight.arg[1] =
                <<"i", "n", "t", "e", "r", "f", "a", "c", "e", " ">>
                \o fields["interface"]
           /\ inflight.arg[2] =
                <<"i", "p", " ", "a", "d", "d", "r", "e", "s", "s", " ">>
                \o fields["ip_addr"] \o <<" ">> \o fields["mask"]
           /\ inflight.arg[3] =
                <<"n", "o", " ", "s", "h", "u", "t", "d", "o", "w", "n">>
           /\ fields = ExampleInterfaceFields =>
                inflight.arg = ExampleInterfacePush
      /\ op = "configure_ospf" =>
           /\ inflight.arg[1] =
                <<"r", "o", "u", "t", "e", "r", " ", "o", "s", "p", "f", " ">>
                \o DecimalDigits(fields["process_id"])
           /\ inflight.arg[2] =
                <<"r", "o", "u", "t", "e", "r", "-", "i", "d", " ">>
                \o fields["router_id"]
           /\ inflight.arg[3] =
                <<"n", "e", "t", "w", "o", "r", "k", " ">>
                \o fields["network"] \o <<" ">> \o fields["wildcard"]
                \o <<" ", "a", "r", "e", "a", " ">> \o fields["area"]

\* The example push is in flight.
C12_Witness ==
    /\ pc = "ci_wait"
    /\ inflight = [kind |-> "send_config_set", arg |-> ExampleInterfacePush]
    /\ fields = ExampleInterfaceFields
    /\ sessionCalls = 1

\* An OSPF push is in flight.
C12_WitnessOspf ==
    /\ pc = "ospf_wait"
    /\ inflight.kind = "send_config_set"
    /\ inflight.arg[1] =
         <<"r", "o", "u", "t", "e", "r", " ", "o", "s", "p", "f", " ", "1">>

\* A text of decimal digits only, at least one.
IsDecimalText(t) ==
    Len(t) > 0 /\ \A i \in 1..Len(t) : \E d \in 1..10 : DigitChars[d] = t[i]

\* The line, trimmed, reads as four dot-separated integers in [0,255].
ParsesAsFourIntegers(line) ==
    LET parts == Split(Strip(line), ".")
    IN  /\ Len(Strip(line)) > 0
        /\ Len(parts) = 4
        /\ \A i \in 1..4 : IsDecimalText(parts[i]) /\ IntValue(parts[i]) <= 255

\* No integer of the line is written with a leading zero.
NoLeadingZeros(line) ==
    LET parts == Split(Strip(line), ".")
    IN  \A i \in 1..Len(parts) :
            Len(parts[i]) > 1 => parts[i][1] # "0"

\* The dotted-decimal form of the four integers of the line.
CanonicalDotted(line) ==
    LET parts == Split(Strip(line), ".")
    IN  DecimalDigits(IntValue(parts[1])) \o <<".">>
        \o DecimalDigits(IntValue(parts[2])) \o <<".">>
        \o DecimalDigits(IntValue(parts[3])) \o <<".">>
        \o DecimalDigits(IntValue(parts[4]))

\* The IPv4 validator returned the dotted form of the line, and validating
\* that value again returns it unchanged.
ReturnedCanonical ==
    /\ vstate = "returned"
    /\ vresult = CanonicalDotted(vline)
    /\ _prompt_ipv4(vresult) = Return(vresult)

\* C13 as stated: every line that parses as four dot-separated integers in
\* [0,255] is accepted by the IPv4 validator, which returns the canonical
\* dotted-decimal form, a fixed point of the validator.
C13_FourIntegersAccepted ==
    (vname = "_prompt_ipv4" /\ nprompts > 0 /\ ParsesAsFourIntegers(vline)) =>
        ReturnedCanonical

\* C13 amended: every line that parses as four dot-separated integers in
\* [0,255], none written with a leading zero, is accepted by the IPv4
\* validator, which returns the canonical dotted-decimal form (the trimmed
\* line itself), a fixed point of the validator; a line with a leading
\* zero in some integer is rejected with a re-prompt.
C13_FourPlainIntegersAccepted ==
    (vname = "_prompt_ipv4" /\ nprompts > 0 /\ ParsesAsFourIntegers(vline)) =>
        IF NoLeadingZeros(vline)
        THEN ReturnedCanonical /\ vresult = Strip(vline)
        ELSE vstate = "prompting" /\ rejected = nprompts

\* A non-trivial address was accepted after trimming.
C13_Witness ==
    /\ vname = "_prompt_ipv4"
    /\ vstate = "returned"
    /\ vline = <<" ", "1", "0", ".", "0", ".", "0", ".", "1", " ">>
    /\ vresult = <<"1", "0", ".", "0", ".", "0", ".", "1">>

\* The upper case of one typed character.
Capital(c) ==
    CASE c = "g" -> <<"G">>
      [] c = "i" -> <<"I">>
      [] c = "a" -> <<"A">>
      [] c = "eszett" -> <<"S", "S">>
      [] OTHER -> <<c>>

\* C14: the interface-name validator re-prompts on a line that is empty
\* after trimming, and returns every other line trimmed, with its first
\* character upper-cased and the remaining characters as typed ("gi0/0"
\* gives "Gi0/0", "g" gives "G").
C14_FirstCharacterUpperCased ==
    (vname = "_prompt_interface_name" /\ nprompts > 0) =>
        IF Len(Strip(vline)) = 0
        THEN vstate = "prompting" /\ rejected = nprompts /\ vresult = "none"
        ELSE /\ vstate = "returned"
             /\ vresult = Capital(Strip(vline)[1]) \o Tail(Strip(vline))
             /\ vline = <<"g", "i", "0", "/", "0">> =>
                    vresult = <<"G", "i", "0", "/", "0">>
             /\ vline = <<"g">> => vresult = <<"G">>

\* "gi0/0" was returned as "Gi0/0" after an empty line was rejected.
C14_Witness ==
    /\ vname = "_prompt_interface_name"
    /\ vstate = "returned"
    /\ rejected = 1
    /\ vline = <<"g", "i", "0", "/", "0">>
    /\ vresult = <<"G", "i", "0", "/", "0">>

\* A number below 100 in two digits, a year in four.
TwoDigits(n) == <<DigitChars[(n \div 10) + 1], DigitChars[(n % 10) + 1]>>

FourDigits(n) == TwoDigits(n \div 100) \o TwoDigits(n % 100)

\* YYYYMMDD-HHMMSS of a clock reading.
Timestamp(c) ==
    FourDigits(c.year) \o TwoDigits(c.month) \o TwoDigits(c.day) \o <<"-">>
    \o TwoDigits(c.hour) \o TwoDigits(c.minute) \o TwoDigits(c.second)

ExampleBackupName ==
    <<"R", "1", "_", "r", "u", "n", "n", "i", "n", "g", "_",
      "2", "0", "2", "4", "0", "1", "0", "2", "-", "0", "3", "0", "4", "0", "5",
      ".", "t", "x", "t">>

\* backup_config prints "Saved running-config to" and returns to the menu.
BackupSaved == pc = "backup_write" /\ pc' = "menu"

\* C15: after a successful capture, a backup that completes has written
\* exactly one file in the backups directory, named
\* <hostname>_running_<YYYYMMDD-HHMMSS>.txt with the UTC clock reading to
\* the second (R1 at 2024-01-02T03:04:05Z gives
\* R1_running_20240102-030405.txt), holding the captured text verbatim.
C15_BackupFileNamedAndFilled ==
    [][ BackupSaved =>
          /\ lastResult \in DeviceTexts
          /\ dirExists'
          /\ written' = hostname \o <<"_", "r", "u", "n", "n", "i", "n", "g", "_">>
                        \o Timestamp(clock) \o <<".", "t", "x", "t">>
          /\ written' \in DOMAIN files'
          /\ files'[written'] = lastResult
          /\ DOMAIN files' = DOMAIN files \cup {written'}
          /\ \A f \in DOMAIN files : f # written' => files'[f] = files[f]
          /\ (hostname = <<"R", "1">> /\ clock = Instant(2024, 1, 2, 3, 4, 5)) =>
                written' = ExampleBackupName ]_vars

\* The example backup was written.
C15_Witness ==
    /\ pc = "menu"
    /\ written = ExampleBackupName
    /\ ExampleBackupName \in DOMAIN files
    /\ files[ExampleBackupName] = "textA"
    /\ lastResult = "textA"
    /\ out.text = "Saved running-config to"

\* The start-up error was reported: by main() for an empty inventory, by
\* connect_to_device for a failure it catches, by the exception itself
\* for a failure of ConnectHandler it does not catch.
StartupErrorReported ==
    \/ devices = 0 /\ connects = 0
       /\ out.text = "No devices found in devices.yaml; exiting."
    \/ devices > 0 /\ connects = 1 /\ exc = "none"
       /\ out = Msg("Unable to connect to", hostname)
    \/ devices > 0 /\ connects = 1 /\ exc \in ConnectFailures

\* C16: a fatal start-up error (no devices in the inventory, or the session
\* is not acquired) is reported and ends the program before the menu loop:
\* no menu selection is read, no session call is made, nothing is closed,
\* and the session is asked for at most once.
C16_StartupErrorEndsBeforeMenu ==
    /\ connects <= 1
    /\ ~acquired =>
         /\ pc \notin LoopPcs \cup {"finally"}
         /\ reads = 0
         /\ sessionCalls = 0
         /\ inflight = NoCall
         /\ sent = NoCall
         /\ disconnects = 0
         /\ pc \in {"returned", "crashed"} => StartupErrorReported

\* The session was refused once and the program returned.
C16_Witness ==
    /\ pc = "returned"
    /\ ~acquired
    /\ connects = 1
    /\ reads = 0
    /\ out = Msg("Unable to connect to", hostname)

\* The errors mkdir and write_text raise when the filesystem refuses.
FilesystemErrors == {"PermissionError", "OSError"}

\* backup_config is left by a filesystem error nobody caught: nothing is
\* printed, the operation is over, the finally clause of main() is next.
BackupRaised ==
    /\ exc = "none"
    /\ exc' \in FilesystemErrors
    /\ pc' = "finally"
    /\ op' = "none"
    /\ out' = out
    /\ written' = written
    /\ reads' = reads
    /\ disconnects' = 0

\* C17: a filesystem failure while the backup directory is created or the
\* backup file is written is caught neither by backup_config nor by the
\* menu loop: the step at the write either saves the file or raises, a
\* raised error ends the operation and the loop (no selection is read and
\* no session call made afterwards), and the finally clause then closes
\* the session exactly once before the program ends with an exception.
C17_FilesystemFailurePropagates ==
    /\ [][ pc = "backup_write" =>
             \/ pc' = pc /\ exc' = exc
             \/ BackupSaved /\ exc' = "none"
                /\ out'.text = "Saved running-config to"
             \/ BackupRaised ]_vars
    /\ [][ exc # "none" =>
             /\ reads' = reads
             /\ sessionCalls' = sessionCalls
             /\ inflight' = NoCall
             /\ pc' \in {"finally", "crashed"}
             /\ exc' # "none" ]_vars
    /\ [][ (pc = "finally" /\ exc # "none" /\ pc' # pc) =>
             /\ pc' = "crashed"
             /\ disconnects' = 1
             /\ exc' = exc \/ (exc' = closeResult' /\ ~DisconnectCatches(exc')) ]_vars
    /\ [](exc = "PermissionError" => pc \in {"finally", "crashed"})

\* The file could not be opened: the program ended with that error after
\* closing the session.
C17_Witness ==
    /\ pc = "crashed"
    /\ exc = "OSError"
    /\ op = "none"
    /\ lastResult \in DeviceTexts
    /\ closeResult = "ok"
    /\ disconnects = 1
    /\ loggedExit

\* The positions at which a session call is in flight.
WaitPcs == {"ci_wait", "show_wait", "ping_wait", "backup_wait", "ospf_wait"}

\* The session call of each operation.
SessionCallOf(operation) ==
    IF operation \in {"configure_interface", "configure_ospf"}
    THEN "send_config_set"
    ELSE "send_command"

\* C18: the session is used by one operation at a time and once per
\* operation: an invocation never makes a second session call, an
\* operation that returns has made exactly one (a configuration push for
\* configure interface and configure OSPF, an exec command for show
\* interfaces, ping test and backup config), a call is entered only when
\* none is in flight, and while one is in flight no selection is read and
\* no other operation starts.
C18_OneSessionCallPerOperation ==
    /\ [](sessionCalls <= 1)
    /\ [](inflight # NoCall =>
            /\ acquired
            /\ sessionCalls = 1
            /\ pc \in WaitPcs
            /\ op \in {"configure_interface", "show_interfaces", "ping_test",
                       "backup_config", "configure_ospf"}
            /\ inflight.kind = SessionCallOf(op))
    /\ [][ (op # "none" /\ op' = "none" /\ exc' = "none") =>
             sessionCalls = 1 /\ sessionCalls' = 1 /\ inflight' = NoCall ]_vars
    /\ [][ sessionCalls' > sessionCalls =>
             /\ inflight = NoCall
             /\ sessionCalls = 0
             /\ inflight'.kind = SessionCallOf(op)
             /\ op' = op ]_vars
    /\ [][ (reads' # reads \/ (op' # op /\ op' # "none")) =>
             inflight = NoCall /\ inflight' = NoCall /\ op = "none" ]_vars

\* The second operation of a run has its exec call in flight.
C18_Witness ==
    /\ pc = "ping_wait"
    /\ op = "ping_test"
    /\ reads = 2
    /\ inflight.kind = "send_command"
    /\ sessionCalls = 1

\* C19: the wildcard-mask validator checks neither inversion nor
\* contiguity: it returns on exactly the lines on which the IPv4 address
\* validator returns, with the same value, and re-prompts on exactly the
\* lines on which that validator re-prompts; the non-contiguous
\* 255.0.0.255 is accepted as typed.
C19_WildcardIsAnyIPv4 ==
    (vname = "_prompt_wildcard_mask" /\ nprompts > 0) =>
        /\ IF _prompt_ipv4(vline).kind = "return"
           THEN /\ vstate = "returned"
                /\ vresult = _prompt_ipv4(vline).val
                /\ nprompts = rejected + 1
           ELSE /\ _prompt_ipv4(vline).kind = "reprompt"
                /\ vstate = "prompting"
                /\ nprompts = rejected
        /\ (ParsesAsFourIntegers(vline) /\ NoLeadingZeros(vline)) =>
                vstate = "returned" /\ vresult = Strip(vline)

\* 255.0.0.255 was returned as a wildcard mask.
C19_Witness ==
    /\ vname = "_prompt_wildcard_mask"
    /\ vstate = "returned"
    /\ vline = <<"2", "5", "5", ".", "0", ".", "0", ".", "2", "5", "5">>
    /\ vresult = <<"2", "5", "5", ".", "0", ".", "0", ".", "2", "5", "5">>

\* Every setup_logging call so far was given the same arguments.
SameArguments == \A i \in 1..Len(logCalls) : logCalls[i] = logCalls[1]

FileHandlerCount == Cardinality({ i \in 1..Len(handlers) : IsFileHandler(handlers[i]) })

ConsoleHandlerCount ==
    Cardinality({ i \in 1..Len(handlers) : handlers[i].type = "StreamHandler" })

\* C20: setup_logging is idempotent within a process: after any number of
\* calls with the same logs directory and log name (the default relative
\* directory "logs" included) the root logger has exactly one file handler
\* and one console handler.
C20_SetupLoggingIdempotent ==
    (Len(logCalls) >= 1 /\ SameArguments) =>
        (FileHandlerCount = 1 /\ ConsoleHandlerCount = 1)

\* The ping command of a destination and a positive count n:
\* "ping <ip> repeat <n>".
PingText(ip, n) ==
    <<"p", "i", "n", "g", " ">> \o ip
    \o <<" ", "r", "e", "p", "e", "a", "t", " ">> \o DecimalDigits(n)

\* C21: every exec command that ping_test sends to the session reads
\* "ping <ip> repeat <n>" with <ip> the validated destination and n a
\* positive integer, whatever is typed at the count prompt and whatever
\* value of DEFAULT_PING_COUNT get_global_settings accepted.
C21_PingRepeatPositive ==
    (op = "ping_test" /\ inflight.kind = "send_command") =>
        /\ fields["repeat"] \in Nat \ {0}
        /\ _prompt_ipv4(fields["destination"]) = Return(fields["destination"])
        /\ inflight.arg = PingText(fields["destination"], fields["repeat"])

\* The line, trimmed, is written in dotted-decimal form: four
\* dot-separated integers.
IsDottedDecimal(line) ==
    LET parts == Split(Strip(line), ".")
    IN  /\ Len(Strip(line)) > 0
        /\ Len(parts) = 4
        /\ \A i \in 1..4 : IsDecimalText(parts[i])

\* C22: whenever the subnet-mask validator accepts a line written in
\* dotted-decimal form, the mask it returns is that same dotted-decimal
\* value: a dotted-decimal input is never replaced by a different mask.
C22_DottedMaskReturnedAsTyped ==
    (vname = "_prompt_subnet_mask" /\ vstate = "returned" /\ IsDottedDecimal(vline)) =>
        vresult = Strip(vline)

====
